---------------------------- MODULE Spec2Model ----------------------------
(***************************************************************************)
(* External-identity login flow of the discord-clone backend:              *)
(*   handlers.AuthHandler  (GoogleLogin, GoogleCallback, generateJWT)      *)
(*   models.UserService    (GetUserByGoogleID, CreateOAuthUser)            *)
(*   middleware.JWTMiddleware / GetUserFromContext                         *)
(*   table users (init-db/01-init-schema.sql, 02-add-oauth-support.sql)    *)
(*                                                                         *)
(* Optional values are sets of at most one element: {} is nil / NULL /     *)
(* "no such cookie", {x} is the value x.  Time is in seconds.              *)
(***************************************************************************)
EXTENDS Integers, Sequences, FiniteSets, TLC

VARIABLES
    users,      \* rows of table users
    nextId,     \* next value of the SERIAL sequence behind users.id
    now,        \* time.Now(), seconds
    ticks,      \* how many times the clock has advanced
    env,        \* os.Getenv("JWT_SECRET")
    jwtSecret,  \* AuthHandler.jwtSecret, captured by NewAuthHandler
    jar,        \* the browser's oauth_state cookie: {} or {[value, expires]}
    minted,     \* how many state values generateRandomState has returned
    cb,         \* GoogleCallback requests, by request
    issued,     \* credentials a client holds (SpecVerifier)
    mw,         \* the request served by JWTMiddleware(helloHandler)
    logins,     \* the responses of GoogleLogin, in order
    rq,         \* requests to JWTMiddleware(helloHandler) in flight (SpecScoped)
    store,        \* the state of useUserStore
    localStorage, \* window.localStorage: the item auth_token, {} when absent
    query,        \* the query of useUser
    ui,           \* the page: location, whether AppContent has mounted
    ops           \* the latest calls of the store's actions, newest first

vars ==
    <<users, nextId, now, ticks, env, jwtSecret, jar, minted, cb, issued, mw,
      logins, rq, store, localStorage, query, ui, ops>>

---------------------------------------------------------------------------
(* Bounds of the model *)

\* GoogleCallback requests that may be in flight together
NumCallbacks == 2
\* GoogleLogin requests (state values minted)
MaxLogins == 2
\* advances of the clock
MaxTicks == 2
\* credentials handed to the client of SpecVerifier
MaxIssued == 1
\* values taken from the SERIAL sequence of users.id
MaxId == 2
\* requests to JWTMiddleware(helloHandler) that may be in flight together
NumRequests == 2

---------------------------------------------------------------------------
(* Program constants *)

\* 24 * time.Hour, the credential lifetime
TokenLifetime == 86400
\* 10 * time.Minute, the oauth_state cookie lifetime
StateCookieTTL == 600
\* authHeader[:20], the logged prefix of the Authorization header
LogPrefixLen == 20
\* len("Bearer ")
BearerPrefixLen == 7
\* a compact JWS is header "." payload "." signature; the shortest header
\* jwt.Parse resolves to a signing method, {"alg":"none"}, is 19 characters
\* in base64url, so a parseable token has at least 21 characters
MinJwtLen == 21

StatusBadRequest == 400
StatusInternalServerError == 500
StatusTemporaryRedirect == 307
StatusOK == 200

---------------------------------------------------------------------------
(* Values *)

CallbackIds == 1..NumCallbacks

\* StateValue had generateRandomState returned the same value every time
StateValue_Constant(i) == <<"state", 0>>

\* the values generateRandomState returns: 32 bytes of crypto/rand, modelled
\* as values that never repeat
StateValue(i) == <<"state", i>>
\* the empty string, as a cookie value or as Query().Get of an absent key
EmptyString == <<>>

GoogleIds == {"g1", "g2"}

Profile(id, email, name) ==
    [id |-> id, email |-> email, name |-> name, picture |-> "pic"]

\* display names of more than the 50 characters of users.username
LongNames == {"Bob whose display name at the provider has 51 chars"}

\* GoogleUserInfo values the provider may return: two users, the first one
\* again after a change of email and name, and a second one whose email or
\* whose name is the first one's, or whose name is a long one
Profiles ==
    {Profile("g1", "ann@x", "ann"), Profile("g1", "ann@y", "anna"),
     Profile("g2", "bob@x", "bob"), Profile("g2", "ann@x", "bob"),
     Profile("g2", "bob@x", "ann")}
       \cup {Profile("g2", "bob@x", n) : n \in LongNames}

Secrets == {"secret", "other"}


---------------------------------------------------------------------------
(* Table users and models.UserService *)

\* OAuthRow had CreateOAuthUser left provider at its default and google_id
\* NULL
OAuthRow_Local(id, email, username, googleID, avatarURL) ==
    [id            |-> id,
     username      |-> username,
     email         |-> email,
     password_hash |-> {},
     google_id     |-> {},
     provider      |-> "local",
     avatar_url    |-> {avatarURL},
     status        |-> "online"]

\* a row as CreateOAuthUser inserts it: provider 'google', status 'online',
\* password_hash left NULL, id from the SERIAL sequence
OAuthRow(id, email, username, googleID, avatarURL) ==
    [id            |-> id,
     username      |-> username,
     email         |-> email,
     password_hash |-> {},
     google_id     |-> {googleID},
     provider      |-> "google",
     avatar_url    |-> {avatarURL},
     status        |-> "online"]

\* GetUserByGoogleID had the query never found a row
GetUserByGoogleID_None(rows, googleID) == {}

\* SELECT ... FROM users WHERE google_id = $1: the rows found ({} is
\* sql.ErrNoRows)
GetUserByGoogleID(rows, googleID) ==
    {u \in rows : u.google_id = {googleID}}

\* UniqueViolation had only google_id been declared UNIQUE
UniqueViolation_GoogleIdOnly(rows, row) ==
    \E u \in rows : u.google_id # {} /\ u.google_id = row.google_id

\* UniqueViolation had google_id not been declared UNIQUE
UniqueViolation_NoGoogleId(rows, row) ==
    \E u \in rows : u.username = row.username \/ u.email = row.email

\* the UNIQUE constraints of users a new row would break:
\* username, email, google_id (NULLs never collide)
UniqueViolation(rows, row) ==
    \E u \in rows :
        \/ u.username = row.username
        \/ u.email = row.email
        \/ (u.google_id # {} /\ u.google_id = row.google_id)

---------------------------------------------------------------------------
(* Session credentials: github.com/golang-jwt/jwt/v5 as the code uses it *)

HmacAlgs == {"HS256", "HS384", "HS512"}
\* signing methods the library has registered
RegisteredAlgs == HmacAlgs \cup {"RS256", "none"}

\* the MAC of a header and payload under a key: equal only for equal
\* algorithm, key and signed content
Mac(alg, key, claims) == [alg |-> alg, key |-> key, claims |-> claims]

\* jwt.NewWithClaims(method, claims).SignedString(key)
SignedString(alg, key, claims) ==
    [form |-> "jws", alg |-> alg, claims |-> claims, sig |-> Mac(alg, key, claims)]

\* generateJWT had it put the email in the username claim
generateJWT_EmailAsUsername(user, secret, t1, t2) ==
    SignedString("HS256", secret,
        [user_id  |-> user.id,
         email    |-> user.email,
         username |-> user.email,
         exp      |-> {t1 + TokenLifetime},
         iat      |-> {t2}])

\* generateJWT: the claims are read from the user, exp from a first read of
\* the clock (t1) and iat from a second one (t2), signed HS256 with
\* h.jwtSecret
generateJWT(user, secret, t1, t2) ==
    SignedString("HS256", secret,
        [user_id  |-> user.id,
         email    |-> user.email,
         username |-> user.username,
         exp      |-> {t1 + TokenLifetime},
         iat      |-> {t2}])

\* the Keyfunc of JWTMiddleware: only *jwt.SigningMethodHMAC gets a key
KeyfuncAccepts(alg) == alg \in HmacAlgs

\* HmacVerify had it compared the signed content and not the key
HmacVerify_AnyKey(tok, key) ==
    tok.sig.alg = tok.alg /\ tok.sig.claims = tok.claims

\* SigningMethodHMAC.Verify: recompute the MAC with the key and compare
HmacVerify(tok, key) == tok.sig = Mac(tok.alg, key, tok.claims)

\* ExpiryValid had a token been valid up to and including exp
ExpiryValid_Inclusive(claims, t) == \A e \in claims.exp : t <= e

\* the validator's exp check, no leeway: valid while now is before exp;
\* a token without exp passes (exp is not required)
ExpiryValid(claims, t) == \A e \in claims.exp : t < e

\* jwt.ParseWithClaims(tokenString, &UserClaims{}, keyfunc): TRUE when
\* err == nil and token.Valid
ParseWithClaims(tok, key, t) ==
    /\ tok.form = "jws"
    /\ tok.alg \in RegisteredAlgs
    /\ KeyfuncAccepts(tok.alg)
    /\ HmacVerify(tok, key)
    /\ ExpiryValid(tok.claims, t)

\* the *UserClaims put in the request context
UserClaims(claims) ==
    [UserID |-> claims.user_id, Email |-> claims.email, Username |-> claims.username]

---------------------------------------------------------------------------
(* Authorization headers *)

NoAuthHeader == [kind |-> "absent"]
\* a header of n characters that does not start with "Bearer "
RawHeader(n) == [kind |-> "raw", len |-> n]
\* "Bearer " followed by tok
BearerHeader(tok) == [kind |-> "bearer", tok |-> tok]
\* n characters that are no compact JWS
Garbage(n) == [form |-> "garbage", len |-> n]

TokenLen(tok) == IF tok.form = "garbage" THEN tok.len ELSE MinJwtLen

HeaderLen(hd) ==
    CASE hd.kind = "absent" -> 0
      [] hd.kind = "raw"    -> hd.len
      [] hd.kind = "bearer" -> BearerPrefixLen + TokenLen(hd.tok)

\* JWTMiddleware, one request: what it does with the wrapped handler.
\*   aborted   the goroutine panicked (authHeader[:20] out of range) and
\*             net/http dropped the connection without a response
\*   nextCalls how many times next.ServeHTTP ran
\*   identity  what GetUserFromContext returns inside next
JWTMiddleware(hd, key, t) ==
    IF hd.kind = "absent"
    THEN [aborted |-> FALSE, nextCalls |-> 1, identity |-> {}]
    ELSE IF HeaderLen(hd) < LogPrefixLen
    THEN [aborted |-> TRUE, nextCalls |-> 0, identity |-> {}]
    ELSE IF hd.kind # "bearer"
    THEN [aborted |-> FALSE, nextCalls |-> 1, identity |-> {}]
    ELSE IF ~ParseWithClaims(hd.tok, key, t)
    THEN [aborted |-> FALSE, nextCalls |-> 1, identity |-> {}]
    ELSE [aborted |-> FALSE, nextCalls |-> 1,
          identity |-> {UserClaims(hd.tok.claims)}]


\* before any request
NoRequest ==
    [served |-> FALSE, header |-> NoAuthHeader, at |-> 0,
     aborted |-> FALSE, nextCalls |-> 0, identity |-> {}]

\* the request, with Authorization header hd, goes through
\* JWTMiddleware(helloHandler); the verifier reads JWT_SECRET now
ServeRequest(hd) ==
    /\ ~mw.served
    /\ LET out == JWTMiddleware(hd, env, now)
       IN mw' = [served |-> TRUE, header |-> hd, at |-> now,
                 aborted |-> out.aborted, nextCalls |-> out.nextCalls,
                 identity |-> out.identity]
    /\ UNCHANGED <<users, nextId, now, ticks, env, jwtSecret, jar, minted, cb, issued,
                 logins, rq,
                 store, localStorage, query, ui, ops>>

RequestIds == 1..NumRequests

\* a request that has not arrived.  ctx is the value under UserContextKey of
\* the context of the *http.Request handed to next.ServeHTTP, seen what
\* helloHandler got from GetUserFromContext
NewRequest ==
    [pc |-> "new", header |-> NoAuthHeader, at |-> 0, ctx |-> {}, seen |-> {},
     response |-> {}]

\* JWTMiddleware on request i, up to the call of next.ServeHTTP:
\* r.WithContext(ctx) makes a copy of the request that carries the claims
MiddlewareStep(i, hd) ==
    /\ rq[i].pc = "new"
    /\ LET out == JWTMiddleware(hd, env, now)
       IN rq' = [rq EXCEPT ![i] =
                   [pc |-> IF out.nextCalls = 1 THEN "handler" ELSE "done",
                    header |-> hd, at |-> now, ctx |-> out.identity,
                    seen |-> {}, response |-> {}]]
    /\ UNCHANGED <<users, nextId, now, ticks, env, jwtSecret, jar, minted, cb, issued,
                 mw, logins,
                 store, localStorage, query, ui, ops>>

\* GetUserFromContext had the claims been kept in one place for all requests
GetUserFromContext_Shared(reqs, i) == UNION {reqs[j].ctx : j \in RequestIds}

\* GetUserFromContext(r): the claims in the context of this request, or nil
GetUserFromContext(reqs, i) == reqs[i].ctx

\* helloHandler had it answered every request as an anonymous one
helloHandler_Generic(user) ==
    [status |-> StatusOK, message |-> <<"Hello from Go backend!">>, user |-> {}]

\* helloHandler had it refused a request without identity
helloHandler_Unauthorized(user) ==
    IF user = {}
    THEN [status |-> 401, message |-> <<"Unauthorized">>, user |-> {}]
    ELSE [status  |-> StatusOK,
          message |-> LET u == CHOOSE x \in user : TRUE
                      IN <<"Hello ", u.Username, "! You are authenticated.">>,
          user    |-> user]

\* helloHandler, given what GetUserFromContext returned: the HelloResponse
\* it encodes, with the status of a handler that never calls WriteHeader
helloHandler(user) ==
    [status  |-> StatusOK,
     message |-> IF user = {} THEN <<"Hello from Go backend!">>
                 ELSE LET u == CHOOSE x \in user : TRUE
                      IN <<"Hello ", u.Username, "! You are authenticated.">>,
     user    |-> user]

\* helloHandler on request i reads the identity and answers
HandlerStep(i) ==
    /\ rq[i].pc = "handler"
    /\ LET user == GetUserFromContext(rq, i)
       IN rq' = [rq EXCEPT ![i].pc = "done", ![i].seen = user,
                           ![i].response = {helloHandler(user)}]
    /\ UNCHANGED <<users, nextId, now, ticks, env, jwtSecret, jar, minted, cb, issued,
                 mw, logins,
                 store, localStorage, query, ui, ops>>

---------------------------------------------------------------------------
(* AuthHandler.GoogleLogin and AuthHandler.GoogleCallback *)

\* StateVerified had only the presence of the cookie been tested
StateVerified_CookieOnly(cookie, state) == cookie # {}

\* the test of line 186 negated: r.Cookie found the cookie and its value
\* equals r.URL.Query().Get("state") (the empty string when there is none)
StateVerified(cookie, state) ==
    cookie # {} /\ \A c \in cookie : c = state

\* a request that has not arrived; a request that has ended (pc "done")
\* keeps what it was sent and what it answered until the next one arrives.
\* exchanged is the outcome of Exchange, resp the provider's answer to
\* getUserInfo, dbFailed whether a query ended in an error of the database
\* that is no constraint violation, created the rows the request inserted,
\* accessToken the token.AccessToken Exchange returned, log the lines the
\* request wrote with log.Printf
IdleCallback ==
    [pc |-> "idle", via |-> "none", cookie |-> {}, state |-> EmptyString,
     code |-> EmptyString, status |-> 0, reason |-> "", cleared |-> FALSE,
     exchanges |-> 0, fetches |-> 0, lookups |-> 0, inserts |-> 0,
     exchanged |-> {}, resp |-> {}, dbFailed |-> FALSE, created |-> {},
     profile |-> {}, user |-> {}, token |-> {}, location |-> {},
     accessToken |-> {}, log |-> {}]

\* the cookie the browser sends: the one in its jar unless it has expired
BrowserCookie == {c.value : c \in {j \in jar : now < j.expires}}

\* cookie values a client that is no browser may send
CraftedCookies == {{}, {EmptyString}, {<<"forged">>}}
\* values of the state query parameter; EmptyString when it is absent
StateParams == {EmptyString, <<"forged">>} \cup {StateValue(i) : i \in 1..minted}
\* values of the code query parameter; EmptyString when it is absent
CodeParams == {EmptyString, <<"code">>}

\* the browser's jar once it has the response: a Set-Cookie with a past
\* expiry removes oauth_state
JarAfter(req) == IF req.via = "browser" /\ req.cleared THEN {} ELSE jar

\* a line of the log: its format string, and the provider access tokens and
\* the session credentials its arguments print in full
LogLine(format, accessTokens, credentials) ==
    [format |-> format, accessTokens |-> accessTokens,
     credentials |-> credentials]

\* log.Printf(format, ...) with arguments that print no token
Logged(req, format) ==
    [req EXCEPT !.log = @ \cup {LogLine(format, {}, {})}]

\* Fail had the handler blocked instead of answering
Fail_Hang(req, status, reason) == [req EXCEPT !.pc = "hung"]

\* Fail had the handler gone on after http.Error
Fail_NoReturn(req, status, reason) ==
    [req EXCEPT !.status = status, !.reason = reason]

\* http.Error(w, reason, status) and return: the request ends
Fail(req, status, reason) ==
    [req EXCEPT !.pc = "done", !.status = status, !.reason = reason]

\* oauthConfig.ClientID, os.Getenv("GOOGLE_CLIENT_ID") read by NewAuthHandler
ClientID == <<"GOOGLE_CLIENT_ID">>

\* h.oauthConfig.AuthCodeURL(state, oauth2.AccessTypeOffline): the provider's
\* authorization endpoint with its query parameters
AuthCodeURL(state) ==
    [endpoint |-> "google.Endpoint.AuthURL", response_type |-> "code",
     client_id |-> ClientID, scope |-> <<"openid", "profile", "email">>,
     state |-> state, access_type |-> "offline"]

\* SetCookie had the browser kept the cookie of the earlier login as well
SetCookie_Keeping(cookies, cookie) == cookies \cup {cookie}

\* http.SetCookie of oauth_state, lines 149-156, as the browser stores it:
\* the cookie replaces the one of the same name
SetCookie(cookies, cookie) == {cookie}

\* StateCookieExpires had the cookie been given an hour
StateCookieExpires_Hour(t) == t + 6 * StateCookieTTL

\* Expires of the oauth_state cookie: time.Now().Add(10 * time.Minute)
StateCookieExpires(t) == t + StateCookieTTL

\* GoogleLogin: a fresh state in the cookie (10 minutes) and in the redirect;
\* setAt is when the browser got the cookie
GoogleLogin ==
    /\ minted < MaxLogins
    /\ minted' = minted + 1
    /\ LET state == StateValue(minted + 1)
       IN /\ jar' = SetCookie(jar, [value |-> state,
                                    expires |-> StateCookieExpires(now),
                                    setAt |-> now])
          /\ logins' = Append(logins,
                 [status |-> StatusTemporaryRedirect,
                  location |-> AuthCodeURL(state),
                  setCookie |-> [name |-> "oauth_state", value |-> state]])
    /\ UNCHANGED <<users, nextId, now, ticks, env, jwtSecret, cb, issued, mw, rq,
                 store, localStorage, query, ui, ops>>

\* CodeMissing had the code never been tested
CodeMissing_Never(code) == FALSE

\* the test of line 204: Query().Get("code") is the empty string
CodeMissing(code) == code = EmptyString

\* GoogleCallback, lines 181-208: state check, cookie cleared, code check
CallbackVerify(r, via, cookie, state, code) ==
    /\ cb[r].pc \in {"idle", "done"}
    /\ LET req == [IdleCallback EXCEPT !.via = via, !.cookie = cookie,
                                !.state = state, !.code = code]
           arrived == Logged(req, "OAuth callback received")
           next ==
             IF ~StateVerified(cookie, state)
             THEN Fail(Logged(arrived, "Invalid state parameter: cookie=%v, query=%v"),
                       StatusBadRequest, "Invalid state parameter")
             ELSE IF CodeMissing(code)
             THEN Fail(Logged([arrived EXCEPT !.cleared = TRUE],
                              "No authorization code received"),
                       StatusBadRequest, "No authorization code")
             ELSE [arrived EXCEPT !.cleared = TRUE, !.pc = "exchange"]
       IN /\ cb' = [cb EXCEPT ![r] = next]
          /\ jar' = IF next.pc = "done" THEN JarAfter(next) ELSE jar
    /\ UNCHANGED <<users, nextId, now, ticks, env, jwtSecret, minted, issued, mw, logins, rq,
                 store, localStorage, query, ui, ops>>

\* token.AccessToken of the token a successful Exchange returns
AccessToken == <<"access_token">>

\* AfterExchange had the error of Exchange been ignored
AfterExchange_IgnoreError(req, ok) == [req EXCEPT !.pc = "userinfo"]

\* lines 211-215: the error of Exchange ends the request
AfterExchange(req, ok) ==
    IF ok THEN [req EXCEPT !.pc = "userinfo"]
    ELSE Fail(Logged(req, "Token exchange error: %v"),
              StatusInternalServerError, "Failed to exchange token")

\* lines 210-215: h.oauthConfig.Exchange; ok is FALSE when it returns an error
CallbackExchange(r, ok) ==
    /\ cb[r].pc = "exchange"
    /\ LET req == [cb[r] EXCEPT !.exchanges = @ + 1, !.exchanged = {ok},
                                 !.accessToken = IF ok THEN {AccessToken} ELSE {}]
           next == AfterExchange(req, ok)
       IN /\ cb' = [cb EXCEPT ![r] = next]
          /\ jar' = IF next.pc = "done" THEN JarAfter(next) ELSE jar
    /\ UNCHANGED <<users, nextId, now, ticks, env, jwtSecret, minted, issued, mw, logins, rq,
                 store, localStorage, query, ui, ops>>

\* what http.Get on the userinfo endpoint gives: an error, or a response
\* with a status and a body; body is {} when it does not decode into
\* GoogleUserInfo, else the profile it decodes into
NetworkError == [err |-> TRUE, status |-> 0, body |-> {}]
HttpResponse(status, body) == [err |-> FALSE, status |-> status, body |-> body]

\* getUserInfo had the status of the response not been tested
getUserInfo_AnyStatus(resp) == IF resp.err THEN {} ELSE resp.body

\* h.getUserInfo: {} on any of its three errors, else the profile
getUserInfo(resp) ==
    IF resp.err THEN {}
    ELSE IF resp.status # StatusOK THEN {}
    ELSE resp.body

\* the answers of the provider to the profile request
ProviderResponses ==
    {NetworkError, HttpResponse(StatusOK, {}),
     HttpResponse(StatusInternalServerError, {}),
     HttpResponse(StatusInternalServerError, {Profile("g1", "ann@x", "ann")})}
       \cup {HttpResponse(StatusOK, {p}) : p \in Profiles}

\* the URL getUserInfo requests: the access token is a query parameter
UserInfoURL(accessToken) ==
    [endpoint |-> "https://www.googleapis.com/oauth2/v2/userinfo",
     access_token |-> accessToken]

\* the access tokens the text of getUserInfo's error shows: the *url.Error
\* of a failed http.Get prints the URL of the request, query included; the
\* errors of lines 285 and 291 print a status or a decoding error
getUserInfoErrorShows(resp, accessToken) ==
    IF resp.err THEN {UserInfoURL(a).access_token : a \in accessToken} ELSE {}

\* AfterUserInfo had the error of getUserInfo been ignored
AfterUserInfo_IgnoreError(req, got) ==
    [req EXCEPT !.pc = "lookup", !.profile = got]

\* lines 219-224: the error of getUserInfo is logged and ends the request
AfterUserInfo(req, got) ==
    IF got # {}
    THEN Logged([req EXCEPT !.pc = "lookup", !.profile = got],
                "Retrieved user info for: %s (%s)")
    ELSE Fail([req EXCEPT !.log = @ \cup
                 {LogLine("Failed to get user info: %v",
                          UNION {getUserInfoErrorShows(x, req.accessToken) :
                                    x \in req.resp}, {})}],
              StatusInternalServerError, "Failed to get user info")

\* lines 218-224: h.getUserInfo
CallbackUserInfo(r, resp) ==
    /\ cb[r].pc = "userinfo"
    /\ LET req == [cb[r] EXCEPT !.fetches = @ + 1, !.resp = {resp}]
           got == getUserInfo(resp)
           next == AfterUserInfo(req, got)
       IN /\ cb' = [cb EXCEPT ![r] = next]
          /\ jar' = IF next.pc = "done" THEN JarAfter(next) ELSE jar
    /\ UNCHANGED <<users, nextId, now, ticks, env, jwtSecret, minted, issued, mw, logins, rq,
                 store, localStorage, query, ui, ops>>

\* AfterLookup had the account found been given the email and the display
\* name of the profile
AfterLookup_ProfileFields(req, found, dbOk) ==
    IF ~dbOk
    THEN Fail(req, StatusInternalServerError, "Database error")
    ELSE IF found = {} THEN [req EXCEPT !.pc = "insert"]
    ELSE [req EXCEPT !.pc = "issue",
                     !.user = {[u EXCEPT !.email = p.email, !.username = p.name] :
                                  u \in found, p \in req.profile}]

\* lines 228-247: what GoogleCallback does with the result of the lookup;
\* the account found is used as it was read
AfterLookup(req, found, dbOk) ==
    IF ~dbOk
    THEN Fail(Logged(req, "Database error: %v"),
              StatusInternalServerError, "Database error")
    ELSE IF found = {}
    THEN Logged([req EXCEPT !.pc = "insert"],
                "Creating new user for Google ID: %s")
    ELSE Logged([req EXCEPT !.pc = "issue", !.user = found],
                "Found existing user: %s (ID: %d)")

\* lines 227-247: h.userService.GetUserByGoogleID; dbOk is FALSE when the
\* query fails with an error other than sql.ErrNoRows
CallbackLookup(r, dbOk) ==
    /\ cb[r].pc = "lookup"
    /\ LET req == [cb[r] EXCEPT !.lookups = @ + 1, !.dbFailed = ~dbOk]
           found == UNION {GetUserByGoogleID(users, p.id) : p \in req.profile}
           next == AfterLookup(req, found, dbOk)
       IN /\ cb' = [cb EXCEPT ![r] = next]
          /\ jar' = IF next.pc = "done" THEN JarAfter(next) ELSE jar
    /\ UNCHANGED <<users, nextId, now, ticks, env, jwtSecret, minted, issued, mw, logins, rq,
                 store, localStorage, query, ui, ops>>

\* username VARCHAR(50): the INSERT is refused with "value too long"
ValueTooLong(row) == row.username \in LongNames

\* InsertRow had the INSERT replaced the rows of the table
InsertRow_Replacing(rows, row) == {row}

\* InsertRow had the INSERT stored nothing
InsertRow_Dropped(rows, row) == rows

\* the table once the INSERT of CreateOAuthUser is accepted
InsertRow(rows, row) == rows \cup {row}

\* lines 232-237: h.userService.CreateOAuthUser; the INSERT takes an id
\* from the sequence whether or not the row is accepted
CallbackInsert(r, dbOk) ==
    /\ cb[r].pc = "insert"
    /\ nextId <= MaxId
    /\ LET req == [cb[r] EXCEPT !.inserts = @ + 1, !.dbFailed = ~dbOk]
           p == CHOOSE q \in req.profile : TRUE
           row == OAuthRow(nextId, p.email, p.name, p.id, p.picture)
           accepted == dbOk /\ ~UniqueViolation(users, row) /\ ~ValueTooLong(row)
           stored == IF accepted THEN InsertRow(users, row) ELSE users
           next == IF accepted
                   THEN [req EXCEPT !.pc = "issue", !.user = {row},
                                    !.created = stored \ users]
                   ELSE Fail(Logged(req, "Failed to create user: %v"),
                             StatusInternalServerError, "Failed to create user")
       IN /\ cb' = [cb EXCEPT ![r] = next]
          /\ users' = stored
          /\ nextId' = IF dbOk THEN nextId + 1 ELSE nextId
          /\ jar' = IF next.pc = "done" THEN JarAfter(next) ELSE jar
    /\ UNCHANGED <<now, ticks, env, jwtSecret, minted, issued, mw, logins, rq,
                 store, localStorage, query, ui, ops>>

\* line 259: the frontend's callback route with the credential as its query
RedirectURL(jwtToken) ==
    [origin |-> "http://localhost:5173", path |-> "/auth/callback",
     token |-> jwtToken]

\* lines 250-261: h.generateJWT and the redirect to the frontend; the clock
\* moves on by gap seconds between generateJWT's two reads of it
CallbackIssue(r, gap) ==
    /\ cb[r].pc = "issue"
    /\ ticks + gap <= MaxTicks
    /\ LET u == CHOOSE x \in cb[r].user : TRUE
           tok == generateJWT(u, jwtSecret, now, now + gap)
           next == Logged([cb[r] EXCEPT !.pc = "done",
                                        !.status = StatusTemporaryRedirect,
                                        !.token = {tok},
                                        !.location = {RedirectURL(tok)}],
                          "Redirecting to frontend with token")
       IN /\ cb' = [cb EXCEPT ![r] = next]
          /\ jar' = JarAfter(next)
    /\ now' = now + gap
    /\ ticks' = ticks + gap
    /\ UNCHANGED <<users, nextId, env, jwtSecret, minted, issued, mw, logins, rq,
                 store, localStorage, query, ui, ops>>

\* time passes, by d seconds
Tick(d) ==
    /\ ticks < MaxTicks
    /\ ticks' = ticks + 1
    /\ now' = now + d
    /\ UNCHANGED <<users, nextId, env, jwtSecret, jar, minted, cb, issued, mw, logins, rq,
                 store, localStorage, query, ui, ops>>

---------------------------------------------------------------------------
(* The web client: useUserStore, useUser, AppContent and ProtectedRoute    *)

\* the store and the storage it persists the token in
InitialStore ==
    [user |-> {}, token |-> {}, isAuthenticated |-> FALSE, isLoading |-> TRUE]

\* a string is truthy unless it is empty
Truthy(tok) == TokenLen(tok) > 0

\* setUser: (user) => set({ user })
setUser(c, user) == [c EXCEPT !.store.user = user]

\* setToken: localStorage.setItem('auth_token', token);
\* set({ token, isAuthenticated: true })
setToken(c, token) ==
    [store |-> [c.store EXCEPT !.token = {token}, !.isAuthenticated = TRUE],
     localStorage |-> {token}]

\* setAuthenticated: (isAuthenticated) => set({ isAuthenticated })
setAuthenticated(c, isAuthenticated) ==
    [c EXCEPT !.store.isAuthenticated = isAuthenticated]

\* setLoading: (isLoading) => set({ isLoading })
setLoading(c, isLoading) == [c EXCEPT !.store.isLoading = isLoading]

\* logout had it left the item in localStorage
logout_KeepingItem(c) ==
    [c EXCEPT !.store = [user |-> {}, token |-> {}, isAuthenticated |-> FALSE,
                         isLoading |-> FALSE]]

\* logout: localStorage.removeItem('auth_token'); set({ user: null,
\* token: null, isAuthenticated: false, isLoading: false })
logout(c) ==
    [store |-> [user |-> {}, token |-> {}, isAuthenticated |-> FALSE,
                isLoading |-> FALSE],
     localStorage |-> {}]

\* initialize: const token = localStorage.getItem('auth_token');
\* if (token) set({ token, isAuthenticated: true, isLoading: false })
\* else set({ isAuthenticated: false, isLoading: false })
initialize(c) ==
    IF \E token \in c.localStorage : Truthy(token)
    THEN [c EXCEPT !.store.token = c.localStorage,
                   !.store.isAuthenticated = TRUE,
                   !.store.isLoading = FALSE]
    ELSE [c EXCEPT !.store.isAuthenticated = FALSE,
                   !.store.isLoading = FALSE]

\* the store together with localStorage
Client == [store |-> store, localStorage |-> localStorage]

\* ProtectedRoute had it rendered its children for every visitor
ProtectedRoute_Open(s) ==
    IF s.isLoading THEN "Loading..." ELSE "Dashboard"

\* ProtectedRoute around Dashboard: what it returns
ProtectedRoute(s) ==
    IF s.isLoading THEN "Loading..."
    ELSE IF s.isAuthenticated THEN "Dashboard" ELSE "Navigate /"

\* LoginPage: what it returns
LoginPage(s) ==
    IF s.isAuthenticated /\ ~s.isLoading THEN "Navigate /dashboard"
    ELSE "LoginPage"

\* the locations the router knows, and one it does not
Paths == {"/", "/auth/callback", "/dashboard", "/other"}

\* AppContent: what is rendered at a location
AppContent(s, path) ==
    IF s.isLoading THEN "Initializing..."
    ELSE CASE path = "/"              -> LoginPage(s)
           [] path = "/auth/callback" -> "AuthCallback"
           [] path = "/dashboard"     -> ProtectedRoute(s)
           [] OTHER                   -> "Navigate /"

\* the page before AppContent has mounted.  boot is the item the browser
\* had in localStorage when the page was opened, loggedOut what has called
\* logout since
NewPage(path, boot) ==
    [path |-> path, mounted |-> FALSE, loggedOut |-> "no", boot |-> boot]

\* the query of useUser before any fetch
IdleQuery ==
    [status |-> "idle", token |-> {}, data |-> {}, error |-> {}, at |-> 0,
     handled |-> TRUE]

\* how many calls ops keeps
OpsWindow == 3

Min(a, b) == IF a < b THEN a ELSE b

\* ops after one more call
Called(name, token) ==
    <<[name |-> name, token |-> token]>>
        \o SubSeq(ops, 1, Min(Len(ops), OpsWindow - 1))

\* no page is open
ClientNotStarted ==
    /\ store = InitialStore
    /\ localStorage = {}
    /\ query = IdleQuery
    /\ ui = NewPage("/", {})
    /\ ops = <<>>

\* the result c of a store action is written back; the query observes the
\* key ['user', token] and starts anew when the token changes
Set(c) ==
    /\ store' = c.store
    /\ localStorage' = c.localStorage
    /\ query' = IF c.store.token = store.token THEN query ELSE IdleQuery

ServerUnchanged ==
    UNCHANGED <<users, nextId, now, ticks, env, jwtSecret, jar, minted, cb,
                issued, mw, logins, rq>>

SetUser(user) ==
    /\ Set(setUser(Client, user))
    /\ ops' = Called("setUser", {})
    /\ UNCHANGED ui /\ ServerUnchanged

SetToken(token) ==
    /\ Set(setToken(Client, token))
    /\ ops' = Called("setToken", {token})
    /\ UNCHANGED ui /\ ServerUnchanged

SetAuthenticated(isAuthenticated) ==
    /\ Set(setAuthenticated(Client, isAuthenticated))
    /\ ops' = Called("setAuthenticated", {})
    /\ UNCHANGED ui /\ ServerUnchanged

SetLoading(isLoading) ==
    /\ Set(setLoading(Client, isLoading))
    /\ ops' = Called("setLoading", {})
    /\ UNCHANGED ui /\ ServerUnchanged

\* logout, called by the caller named by
Logout(by) ==
    /\ Set(logout(Client))
    /\ ops' = Called("logout", {})
    /\ ui' = [ui EXCEPT !.loggedOut = by]
    /\ ServerUnchanged

\* the button of Dashboard: onClick={logout}
DashboardLogout ==
    /\ ui.mounted
    /\ AppContent(store, ui.path) = "Dashboard"
    /\ Logout("button")

Initialize ==
    /\ Set(initialize(Client))
    /\ ops' = Called("initialize", {})
    /\ ui' = [ui EXCEPT !.mounted = TRUE]
    /\ ServerUnchanged

\* AppContent mounts: useEffect(() => { initialize(); }, [initialize])
AppContentMount ==
    /\ ~ui.mounted
    /\ Initialize

\* the page is loaded again, at a location: a new store and a new query
\* cache, the same localStorage
Reload(path) ==
    /\ store' = InitialStore
    /\ query' = IdleQuery
    /\ ui' = [ui EXCEPT !.path = path, !.mounted = FALSE]
    /\ ops' = Called("reload", {})
    /\ UNCHANGED localStorage /\ ServerUnchanged

\* where a rendered <Navigate to=...> leads
NavigateTo(element) ==
    CASE element = "Navigate /"          -> {"/"}
      [] element = "Navigate /dashboard" -> {"/dashboard"}
      [] OTHER                           -> {}

\* <Navigate to=...>: the router follows what AppContent rendered
Navigate ==
    /\ ui.mounted
    /\ \E to \in NavigateTo(AppContent(store, ui.path)) :
          ui' = [ui EXCEPT !.path = to]
    /\ UNCHANGED <<store, localStorage, query, ops>> /\ ServerUnchanged

\* the visitor goes to another location of the application (a link, the
\* back button)
Visit(path) ==
    /\ ui.mounted
    /\ path # ui.path
    /\ ui' = [ui EXCEPT !.path = path]
    /\ UNCHANGED <<store, localStorage, query, ops>> /\ ServerUnchanged

\* the status useUser's second effect looks for in the error message
StatusUnauthorized == 401

\* fetch rejected: no response (connection refused or dropped)
FetchFailed == [kind |-> "TypeError", status |-> 0]
\* new Error(`HTTP error! status: ${response.status}`)
HttpError(status) == [kind |-> "HTTP error! status: ", status |-> status]

\* query.error.message.includes('401'): the message of a rejected fetch
\* holds no digits, the other one the three digits of the status
Includes401(error) ==
    error.kind = "HTTP error! status: " /\ error.status = StatusUnauthorized

\* response.ok
ResponseOk(status) == status \in 200..299

\* fetchUserData(token) at time t, against a server that is up or not: the
\* data it resolves with or the error it throws
fetchUserData(token, key, t, up) ==
    LET out == JWTMiddleware(BearerHeader(token), key, t)
        response == helloHandler(out.identity)
    IN  IF ~up \/ out.aborted
        THEN [data |-> {}, error |-> {FetchFailed}]
        ELSE IF ~ResponseOk(response.status)
        THEN [data |-> {}, error |-> {HttpError(response.status)}]
        ELSE [data |-> {response}, error |-> {}]

\* LoginPage, the component that calls useUser, is mounted
LoginPageMounted ==
    ui.mounted /\ ui.path = "/" /\ ~store.isLoading

\* enabled: !!token && !storeLoading
QueryEnabled ==
    (\E token \in store.token : Truthy(token)) /\ ~store.isLoading

\* the two effects of useUser, for the query q:
\* if (query.data?.user) setUser(query.data.user);
\* if (query.error && query.error.message.includes('401')) logout()
useUserEffects(c, q) ==
    LET c1 == IF \E d \in q.data : d.user # {}
              THEN setUser(c, UNION {d.user : d \in q.data}) ELSE c
    IN  IF \E e \in q.error : Includes401(e) THEN logout(c1) ELSE c1

LogsOutOn401(q) == \E e \in q.error : Includes401(e)

\* the effects run for q while LoginPage is mounted
RunEffects(q) ==
    LET c == useUserEffects(Client, q)
    IN  /\ store' = c.store
        /\ localStorage' = c.localStorage
        /\ query' = IF LogsOutOn401(q) THEN IdleQuery
                    ELSE [q EXCEPT !.handled = TRUE]
        /\ ui' = IF LogsOutOn401(q) THEN [ui EXCEPT !.loggedOut = "401"]
                 ELSE ui
        /\ ops' = IF LogsOutOn401(q) THEN Called("logout", {}) ELSE ops

\* useQuery starts queryFn when LoginPage is mounted, the query is enabled
\* and its data is missing or stale
QueryFetch ==
    /\ LoginPageMounted /\ QueryEnabled
    /\ query.status # "fetching"
    /\ query.status = "idle" \/ query.at < now
    /\ query' = [query EXCEPT !.status = "fetching", !.token = store.token]
    /\ UNCHANGED <<store, localStorage, ui, ops>> /\ ServerUnchanged

\* the fetch of queryFn ends; a failed one keeps the data of an earlier
\* success.  The effects run at once when LoginPage is still mounted
QuerySettle(up) ==
    /\ query.status = "fetching"
    /\ \E token \in query.token :
          LET r == fetchUserData(token, env, now, up)
              q == [status  |-> IF r.error = {} THEN "success" ELSE "error",
                    token   |-> query.token,
                    data    |-> IF r.error = {} THEN r.data ELSE query.data,
                    error   |-> r.error,
                    at      |-> now,
                    handled |-> FALSE]
          IN  IF LoginPageMounted
              THEN RunEffects(q)
              ELSE /\ query' = q
                   /\ UNCHANGED <<store, localStorage, ui, ops>>
    /\ ServerUnchanged

\* LoginPage mounts again and its effects see the result the query got
\* while it was away
LoginPageEffects ==
    /\ LoginPageMounted
    /\ query.status \in {"success", "error"} /\ ~query.handled
    /\ RunEffects(query)
    /\ ServerUnchanged

---------------------------------------------------------------------------
(* Spec: the login flow, one callback request at a time, any request;    *)
(* generateJWT reads the clock twice within one second (SpecVerifier has   *)
(* the credentials whose two reads differ)                                 *)

Init ==
    /\ users = {}
    /\ nextId = 1
    /\ now = 0
    /\ ticks = 0
    /\ env = "secret"
    /\ jwtSecret = env
    /\ jar = {}
    /\ minted = 0
    /\ cb = [r \in CallbackIds |-> IdleCallback]
    /\ issued = {}
    /\ mw = NoRequest
    /\ logins = <<>>
    /\ rq = [i \in RequestIds |-> NewRequest]
    /\ ClientNotStarted

Next ==
    \/ GoogleLogin
    \/ \E state \in StateParams, code \in CodeParams :
          \/ CallbackVerify(1, "browser", BrowserCookie, state, code)
          \/ \E cookie \in CraftedCookies :
                CallbackVerify(1, "crafted", cookie, state, code)
    \/ \E ok \in BOOLEAN : CallbackExchange(1, ok)
    \/ \E resp \in ProviderResponses : CallbackUserInfo(1, resp)
    \/ \E dbOk \in BOOLEAN : CallbackLookup(1, dbOk)
    \/ \E dbOk \in BOOLEAN : CallbackInsert(1, dbOk)
    \/ CallbackIssue(1, 0)
    \/ Tick(StateCookieTTL)

Spec == Init /\ [][Next]_vars

---------------------------------------------------------------------------
(* SpecRace: callback requests of browsers that went through GoogleLogin,  *)
(* handled concurrently; the provider and the database answer              *)

\* profiles of the racing logins: the same external id twice, and another
\* external id whose email and name collide with theirs
RaceProfiles ==
    {Profile("g1", "ann@x", "ann"), Profile("g1", "ann@y", "anna"),
     Profile("g2", "ann@x", "bob")}

NextRace ==
    \/ GoogleLogin
    \/ \E r \in CallbackIds, state \in BrowserCookie :
          /\ cb[r].pc = "idle"
          /\ \A q \in CallbackIds : q < r => cb[q].pc # "idle"
          /\ CallbackVerify(r, "browser", BrowserCookie, state, <<"code">>)
    \/ \E r \in CallbackIds : CallbackExchange(r, TRUE)
    \/ \E r \in CallbackIds, p \in RaceProfiles : CallbackUserInfo(r, HttpResponse(StatusOK, {p}))
    \/ \E r \in CallbackIds : CallbackLookup(r, TRUE)
    \/ \E r \in CallbackIds : CallbackInsert(r, TRUE)
    \/ \E r \in CallbackIds : CallbackIssue(r, 0)

SpecRace == Init /\ [][NextRace]_vars

---------------------------------------------------------------------------
(* SpecStore: the actions of useUserStore, called in any order with any    *)
(* argument, and the page that renders from it                             *)

\* the users setUser is called with
StoreUsers == {[UserID |-> 1, Email |-> "ann@x", Username |-> "ann"]}

\* the strings setToken is called with: a credential, the empty string,
\* another string
StoreTokens ==
    {generateJWT(OAuthRow(1, "ann@x", "ann", "g1", "pic"), "secret", 0, 0),
     Garbage(0), Garbage(2 * LogPrefixLen)}

NextStore ==
    \/ \E u \in StoreUsers : SetUser({u})
    \/ \E token \in StoreTokens : SetToken(token)
    \/ \E b \in BOOLEAN : SetAuthenticated(b)
    \/ \E b \in BOOLEAN : SetLoading(b)
    \/ Logout("caller")
    \/ Initialize
    \/ Reload("/dashboard")
    \/ Navigate
    \/ Visit("/dashboard")

SpecStore == Init /\ [][NextStore]_vars

---------------------------------------------------------------------------
(* SpecApp: the application in a browser that kept an item auth_token,     *)
(* against the server                                                      *)

\* what the browser may hold under auth_token: a credential of the
\* service, one signed with another key, the empty string, strings that
\* are no credential, short enough for authHeader[:20] to fail or longer
StoredTokens ==
    {generateJWT(OAuthRow(1, "ann@x", "ann", "g1", "pic"), "secret", 0, 0),
     generateJWT(OAuthRow(1, "ann@x", "ann", "g1", "pic"), "other", 0, 0),
     Garbage(0), Garbage(1), Garbage(2 * LogPrefixLen)}

InitApp ==
    /\ users = {OAuthRow(1, "ann@x", "ann", "g1", "pic")}
    /\ nextId = 2
    /\ now = 0
    /\ ticks = 0
    /\ env = "secret"
    /\ jwtSecret = env
    /\ jar = {}
    /\ minted = 0
    /\ cb = [r \in CallbackIds |-> IdleCallback]
    /\ issued = {}
    /\ mw = NoRequest
    /\ logins = <<>>
    /\ rq = [i \in RequestIds |-> NewRequest]
    /\ store = InitialStore
    /\ localStorage \in {{}} \cup {{token} : token \in StoredTokens}
    /\ query = IdleQuery
    /\ ui = NewPage("/", localStorage)
    /\ ops = <<>>

NextApp ==
    \/ AppContentMount
    \/ Navigate
    \/ \E path \in Paths : Visit(path)
    \/ \E path \in {"/", "/dashboard"} : Reload(path)
    \/ QueryFetch
    \/ \E up \in BOOLEAN : QuerySettle(up)
    \/ LoginPageEffects
    \/ DashboardLogout
    \/ Tick(TokenLifetime)

SpecApp == InitApp /\ [][NextApp]_vars

---------------------------------------------------------------------------
(* SpecLive: concurrent callback requests whose calls to the provider and  *)
(* to the database each return, with a result or with an error             *)

\* the answers of the provider to the profile request of these requests
LiveResponses ==
    {NetworkError,
     HttpResponse(StatusOK, {Profile("g1", "ann@x", "ann")})}

\* the next step of GoogleCallback for request r: a call returns and the
\* handler goes on to the next call or answers
CallbackStep(r) ==
    \/ \E ok \in BOOLEAN : CallbackExchange(r, ok)
    \/ \E resp \in LiveResponses : CallbackUserInfo(r, resp)
    \/ \E dbOk \in BOOLEAN : CallbackLookup(r, dbOk)
    \/ \E dbOk \in BOOLEAN : CallbackInsert(r, dbOk)
    \/ CallbackIssue(r, 0)

NextLive ==
    \/ GoogleLogin
    \/ \E r \in CallbackIds, state \in BrowserCookie \cup {<<"forged">>},
          code \in CodeParams :
          /\ cb[r].pc = "idle"
          /\ \A q \in CallbackIds : q < r => cb[q].pc # "idle"
          /\ CallbackVerify(r, "browser", BrowserCookie, state, code)
    \/ \E r \in CallbackIds : CallbackStep(r)

\* the goroutine of a request is scheduled, and the call it waits for
\* returns
SpecLive ==
    /\ Init /\ [][NextLive]_vars
    /\ \A r \in CallbackIds : WF_vars(CallbackStep(r))

---------------------------------------------------------------------------
(* SpecServer: the server as main starts it, with JWT_SECRET set or not, *)
(* serving logins, callbacks of a browser and of a client that keeps the *)
(* state cookie, and requests to /api/hello; the provider and the        *)
(* database answer                                                       *)

\* Authorization headers of the requests to /api/hello: none, the
\* credential the callback issued, and one a client signed itself with the
\* empty key for an id of its choice
ServerHeaders ==
    {NoAuthHeader}
      \cup {BearerHeader(tok) : tok \in cb[1].token}
      \cup {BearerHeader(generateJWT(OAuthRow(MaxId + 1, "eve@x", "eve", "g9", "pic"),
                                     "", 0, 0))}

\* main, lines 186-206: godotenv.Load may find no JWT_SECRET; nothing on
\* the way to ListenAndServe tests the values NewAuthHandler read
InitServer ==
    /\ users = {}
    /\ nextId = 1
    /\ now = 0
    /\ ticks = 0
    /\ env \in {"secret", ""}
    /\ jwtSecret = env
    /\ jar = {}
    /\ minted = 0
    /\ cb = [r \in CallbackIds |-> IdleCallback]
    /\ issued = {}
    /\ mw = NoRequest
    /\ logins = <<>>
    /\ rq = [i \in RequestIds |-> NewRequest]
    /\ ClientNotStarted

NextServer ==
    \/ GoogleLogin
    \/ \E i \in 1..minted :
          \/ CallbackVerify(1, "browser", BrowserCookie, StateValue(i), <<"code">>)
          \/ CallbackVerify(1, "crafted", {StateValue(i)}, StateValue(i), <<"code">>)
    \/ CallbackExchange(1, TRUE)
    \/ \E p \in RaceProfiles : CallbackUserInfo(1, HttpResponse(StatusOK, {p}))
    \/ CallbackLookup(1, TRUE)
    \/ CallbackInsert(1, TRUE)
    \/ CallbackIssue(1, 0)
    \/ \E hd \in ServerHeaders : ServeRequest(hd)
    \/ Tick(StateCookieTTL)

SpecServer == InitServer /\ [][NextServer]_vars

---------------------------------------------------------------------------
(* SpecVerifier: credentials issued for the accounts of two earlier logins *)
(* and requests with any Authorization header                              *)

\* h.generateJWT(user) for a client that keeps the credential; the clock
\* moves on by gap seconds between generateJWT's two reads of it
IssueCredential(u, gap) ==
    /\ Cardinality(issued) < MaxIssued
    /\ ticks + gap <= MaxTicks
    /\ issued' = issued \cup
          {[user |-> u, token |-> generateJWT(u, jwtSecret, now, now + gap)]}
    /\ now' = now + gap
    /\ ticks' = ticks + gap
    /\ UNCHANGED <<users, nextId, env, jwtSecret, jar, minted, cb, mw, logins, rq,
                 store, localStorage, query, ui, ops>>

\* lengths of headers without the Bearer prefix, around authHeader[:20]
RawLens == {1, LogPrefixLen - 1, LogPrefixLen, LogPrefixLen + 1}
\* lengths of bearer tokens that are no JWS, around authHeader[:20]
GarbageLens ==
    {1, LogPrefixLen - BearerPrefixLen - 1, LogPrefixLen - BearerPrefixLen,
     2 * LogPrefixLen}

\* claims of tokens not made by generateJWT: an account's identity or
\* another one, without exp or with an early or a late one
ForgedClaims ==
    [user_id : {1, 9}, email : {"ann@x"}, username : {"ann"},
     exp : {{}, {1}, {TokenLifetime + 1}}, iat : {{0}}]

\* compact JWS tokens anyone may send: any algorithm name, signed over
\* their own claims or over other ones, with the service's secret or not
ForgedTokens ==
    UNION {{[form |-> "jws", alg |-> a, claims |-> c, sig |-> Mac(a, k, sc)] :
               a \in RegisteredAlgs \cup {"XS1"}, k \in Secrets,
               sc \in {x \in ForgedClaims : x.exp = c.exp}} :
           c \in ForgedClaims}

Headers ==
    {NoAuthHeader}
      \cup {RawHeader(n) : n \in RawLens}
      \cup {BearerHeader(Garbage(n)) : n \in GarbageLens}
      \cup {BearerHeader(t) : t \in ForgedTokens}
      \cup {BearerHeader(c.token) : c \in issued}

InitVerifier ==
    /\ users = {OAuthRow(1, "ann@x", "ann", "g1", "pic"),
                OAuthRow(2, "bob@x", "bob", "g2", "pic")}
    /\ nextId = 3
    /\ now = 0
    /\ ticks = 0
    /\ env = "secret"
    /\ jwtSecret = env
    /\ jar = {}
    /\ minted = 0
    /\ cb = [r \in CallbackIds |-> IdleCallback]
    /\ issued = {}
    /\ mw = NoRequest
    /\ logins = <<>>
    /\ rq = [i \in RequestIds |-> NewRequest]
    /\ ClientNotStarted

NextVerifier ==
    \/ \E u \in users, gap \in {0, 1} : IssueCredential(u, gap)
    \/ \E hd \in Headers : ServeRequest(hd)
    \/ Tick(1)
    \/ Tick(TokenLifetime)

SpecVerifier == InitVerifier /\ [][NextVerifier]_vars

---------------------------------------------------------------------------
(* SpecScoped: concurrent requests to JWTMiddleware(helloHandler) from the *)
(* holders of credentials of two accounts and from anyone else             *)

\* the headers of the concurrent requests: none, a short one without the
\* Bearer prefix, the credentials generateJWT made at time 0 for each
\* account, and one signed with another secret
ScopedHeaders ==
    {NoAuthHeader, RawHeader(1)}
      \cup {BearerHeader(generateJWT(u, "secret", 0, 0)) : u \in
               {OAuthRow(1, "ann@x", "ann", "g1", "pic"),
                OAuthRow(2, "bob@x", "bob", "g2", "pic")}}
      \cup {BearerHeader(generateJWT(OAuthRow(1, "ann@x", "ann", "g1", "pic"),
                                     "other", 0, 0))}

NextScoped ==
    \/ \E i \in RequestIds, hd \in ScopedHeaders : MiddlewareStep(i, hd)
    \/ \E i \in RequestIds : HandlerStep(i)
    \/ Tick(1)
    \/ Tick(TokenLifetime)

SpecScoped == InitVerifier /\ [][NextScoped]_vars

---------------------------------------------------------------------------
(* Properties *)

\* the request of the middleware carries a compact JWS as bearer token
BearerJws == mw.served /\ mw.header.kind = "bearer" /\ mw.header.tok.form = "jws"

\* C1: whatever the Authorization header, the wrapped handler is invoked
\* exactly once and the middleware never aborts the request.
C1_HandlerAlwaysInvokedOnce ==
    mw.served => (mw.nextCalls = 1 /\ ~mw.aborted)

\* what C2 calls state verification succeeding: the request did not end
\* with "Invalid state parameter"
PassedStateCheck(req) ==
    req.pc # "idle" /\ ~(req.pc = "done" /\ req.reason = "Invalid state parameter")

\* C2: state verification succeeds if and only if the cookie value and the
\* state parameter are both present (non-empty) and equal; every other
\* request is answered 400.
C2_VerifiedIffPresentAndEqual ==
    \A r \in CallbackIds :
        cb[r].pc # "idle" =>
            LET presentAndEqual ==
                    /\ cb[r].cookie # {}
                    /\ cb[r].state # EmptyString
                    /\ \A c \in cb[r].cookie : c # EmptyString /\ c = cb[r].state
            IN /\ PassedStateCheck(cb[r]) <=> presentAndEqual
               /\ ~presentAndEqual =>
                     (cb[r].pc = "done" /\ cb[r].status = StatusBadRequest)

\* C3: when two first-time logins for one external id race, the request
\* whose insert loses on the unique external id still ends with a redirect
\* carrying a credential for the account that exists.
C3_LoserOfInsertRaceRedirected ==
    \A r \in CallbackIds :
        \A p \in cb[r].profile :
            (cb[r].pc = "done" /\ cb[r].inserts = 1
               /\ GetUserByGoogleID(users, p.id) # {}) =>
                /\ cb[r].status = StatusTemporaryRedirect
                /\ \E tok \in cb[r].token, u \in GetUserByGoogleID(users, p.id) :
                      tok.claims.user_id = u.id

\* C4: under every interleaving of callback requests the store
\* never holds two accounts with one external id, and it holds exactly one
\* for the external id of every request answered with the redirect.
C4_AtMostOneAccountPerExternalId ==
    /\ \A g \in GoogleIds : Cardinality(GetUserByGoogleID(users, g)) <= 1
    /\ \A r \in CallbackIds :
          (cb[r].pc = "done" /\ cb[r].status = StatusTemporaryRedirect) =>
              \A p \in cb[r].profile :
                  Cardinality(GetUserByGoogleID(users, p.id)) = 1

\* two first-time logins for one external id raced: both lookups missed,
\* both requests have ended, one account is stored
C4_Witness ==
    \E r1, r2 \in CallbackIds :
        /\ r1 # r2
        /\ cb[r1].pc = "done" /\ cb[r2].pc = "done"
        /\ cb[r1].inserts = 1 /\ cb[r2].inserts = 1
        /\ \E p1 \in cb[r1].profile, p2 \in cb[r2].profile :
              /\ p1.id = p2.id
              /\ Cardinality(GetUserByGoogleID(users, p1.id)) = 1

\* C4, with exactly one in every case: once a callback request for an external id has gone
\* through identity resolution, the store holds exactly one account with it.
C4_ExactlyOneAfterAnyCallback ==
    \A r \in CallbackIds :
        (cb[r].pc = "done" /\ cb[r].lookups = 1) =>
            \A p \in cb[r].profile :
                Cardinality(GetUserByGoogleID(users, p.id)) = 1

\* C5: every callback request answers with the Set-Cookie that expires
\* oauth_state, whether state verification succeeded or failed.
C5_CookieClearedOnEveryAttempt ==
    \A r \in CallbackIds : cb[r].pc = "done" => cb[r].cleared

\* the state parameter differs from the cookie, or there is no cookie
StateMismatch(req) ==
    req.cookie = {} \/ \E c \in req.cookie : c # req.state

\* C6: a callback whose state parameter differs from the oauth_state cookie,
\* or that has no cookie, is answered 400 with no code exchange, no profile
\* fetch, no account lookup or creation and no credential.
C6_StateMismatchStops ==
    \A r \in CallbackIds :
        (cb[r].pc # "idle" /\ StateMismatch(cb[r])) =>
            /\ cb[r].pc = "done"
            /\ cb[r].status = StatusBadRequest
            /\ cb[r].exchanges = 0 /\ cb[r].fetches = 0
            /\ cb[r].lookups = 0 /\ cb[r].inserts = 0
            /\ cb[r].user = {} /\ cb[r].token = {}

\* a browser that went through GoogleLogin came back with a tampered state
C6_Witness ==
    \E r \in CallbackIds :
        /\ cb[r].pc = "done"
        /\ cb[r].via = "browser"
        /\ cb[r].cookie = {StateValue(1)}
        /\ cb[r].state = <<"forged">>
        /\ cb[r].code # EmptyString
        /\ cb[r].status = StatusBadRequest

\* C7: a credential generateJWT made for an account, presented at once as
\* bearer token, with the issuer's and the verifier's secret the same, makes
\* the handler see the account's id, email and username.
C7_IssuedCredentialRoundTrip ==
    \A c \in issued :
        (/\ mw.served
         /\ mw.header = BearerHeader(c.token)
         /\ mw.at \in c.token.claims.iat
         /\ env = jwtSecret) =>
            /\ mw.nextCalls = 1
            /\ mw.identity = {[UserID   |-> c.user.id,
                               Email    |-> c.user.email,
                               Username |-> c.user.username]}

\* a credential of the second account was presented the second it was made
C7_Witness ==
    \E c \in issued :
        /\ mw.served
        /\ mw.header = BearerHeader(c.token)
        /\ mw.at \in c.token.claims.iat
        /\ c.user.id = 2
        /\ mw.identity # {}

\* C8: a bearer token whose exp is at or before the current time attaches
\* no identity, whether or not its signature is valid.
C8_ExpiredTokenAnonymous ==
    (BearerJws /\ \E e \in mw.header.tok.claims.exp : e <= mw.at) =>
        (mw.identity = {} /\ mw.nextCalls = 1)

\* an HS256 token with a valid signature was presented the second it expired
C8_Witness ==
    /\ BearerJws
    /\ mw.header.tok.alg = "HS256"
    /\ HmacVerify(mw.header.tok, env)
    /\ mw.at \in mw.header.tok.claims.exp

\* C9: a bearer token signed with a secret other than the service's
\* attaches no identity, whatever its claims.
C9_ForeignSecretAnonymous ==
    (BearerJws /\ mw.header.tok.sig.key # env) => mw.identity = {}

\* an unexpired HS256 token, signed over its own claims with another secret
C9_Witness ==
    /\ BearerJws
    /\ mw.header.tok.alg = "HS256"
    /\ mw.header.tok.sig = Mac("HS256", "other", mw.header.tok.claims)
    /\ ExpiryValid(mw.header.tok.claims, mw.at)
    /\ mw.nextCalls = 1

\* C10: a token whose header algorithm is not HS256 (none, an asymmetric
\* one, HS384, HS512) attaches no identity.
C10_OnlyHS256Accepted ==
    (BearerJws /\ mw.header.tok.alg # "HS256") => mw.identity = {}

\* C11: a request with no Authorization header, or with one that does not
\* start with "Bearer ", whatever its length, reaches the wrapped handler,
\* which sees no identity.
C11_NonBearerPassesThroughAnonymous ==
    (mw.served /\ mw.header.kind \in {"absent", "raw"}) =>
        (mw.nextCalls = 1 /\ ~mw.aborted /\ mw.identity = {})

\* C12: a state value minted by GoogleLogin passes state verification in at
\* most one callback request, also when two requests carry it concurrently.
C12_StateTokenSingleUse ==
    \A r1, r2 \in CallbackIds :
        (/\ r1 # r2
         /\ PassedStateCheck(cb[r1]) /\ PassedStateCheck(cb[r2])
         /\ \E i \in 1..minted : cb[r1].state = StateValue(i)) =>
            cb[r1].state # cb[r2].state

\* the state and the code of the request were accepted, Exchange returned a
\* token and the provider answered the profile request with a profile
ProviderCallsSucceeded(req) ==
    /\ PassedStateCheck(req)
    /\ ~CodeMissing(req.code)
    /\ req.exchanged = {TRUE}
    /\ \E p \in Profiles : req.resp = {HttpResponse(StatusOK, {p})}

\* the request has ended and the database answered its queries
StorageAnswered(req) ==
    req.pc = "done" /\ req.lookups = 1 /\ ~req.dbFailed

\* the accounts stored before the request inserted any
StoredBefore(req) == users \ req.created

\* tok is a credential of this service for the account u, carried by the
\* redirect of the request
RedirectsWithCredentialFor(req, u) ==
    /\ req.status = StatusTemporaryRedirect
    /\ \E tok \in req.token :
          /\ req.location = {RedirectURL(tok)}
          /\ tok.form = "jws" /\ tok.alg = "HS256"
          /\ HmacVerify(tok, jwtSecret)
          /\ tok.claims.exp # {}
          /\ UserClaims(tok.claims) =
                [UserID |-> u.id, Email |-> u.email, Username |-> u.username]

C15_LoginRedirectCarriesFreshState ==
    \A k \in 1..Len(logins) :
        /\ logins[k].status = StatusTemporaryRedirect
        /\ logins[k].location.client_id = ClientID
        /\ logins[k].location.state # EmptyString
        /\ logins[k].setCookie.name = "oauth_state"
        /\ logins[k].setCookie.value = logins[k].location.state
        /\ \A j \in 1..Len(logins) :
              j # k => logins[j].location.state # logins[k].location.state

\* two logins were answered
C15_Witness ==
    /\ Len(logins) >= 2
    /\ \E c \in jar : c.value = logins[Len(logins)].location.state

\* C16: a callback whose state verifies but that has no code is answered 400
\* with no code exchange, profile fetch, lookup, creation or credential.
C16_MissingCodeStops ==
    \A r \in CallbackIds :
        (PassedStateCheck(cb[r]) /\ cb[r].code = EmptyString) =>
            /\ cb[r].pc = "done"
            /\ cb[r].status = StatusBadRequest
            /\ cb[r].reason = "No authorization code"
            /\ cb[r].exchanges = 0 /\ cb[r].fetches = 0
            /\ cb[r].lookups = 0 /\ cb[r].inserts = 0
            /\ cb[r].created = {} /\ cb[r].user = {}
            /\ cb[r].token = {} /\ cb[r].location = {}

\* a browser that went through GoogleLogin came back without a code
C16_Witness ==
    \E r \in CallbackIds :
        /\ cb[r].pc = "done"
        /\ cb[r].via = "browser"
        /\ cb[r].cookie = {StateValue(1)}
        /\ cb[r].state = StateValue(1)
        /\ cb[r].code = EmptyString
        /\ cb[r].status = StatusBadRequest

\* the request was answered with a 5xx status and went no further than the
\* steps counted: no credential and no redirect
StoppedWithServerError(req) ==
    /\ req.pc = "done"
    /\ req.status >= 500 /\ req.status < 600
    /\ req.created = {} /\ req.user = {}
    /\ req.token = {} /\ req.location = {}

\* C17: when the code exchange fails the request is answered 5xx and stops:
\* no profile fetch, lookup, creation, credential or redirect.
C17_ExchangeFailureStops ==
    \A r \in CallbackIds :
        FALSE \in cb[r].exchanged =>
            /\ StoppedWithServerError(cb[r])
            /\ cb[r].fetches = 0 /\ cb[r].resp = {}
            /\ cb[r].lookups = 0 /\ cb[r].inserts = 0

\* the provider refused the code of a request whose state verified
C17_Witness ==
    \E r \in CallbackIds :
        /\ cb[r].exchanged = {FALSE}
        /\ cb[r].exchanges = 1
        /\ cb[r].status = StatusInternalServerError

\* the profile request got no profile: a network error, a status other than
\* 200, or a body that does not decode
ProfileFetchFailed(req) ==
    \E x \in req.resp : x.err \/ x.status # StatusOK \/ x.body = {}

\* C18: when the profile fetch fails (network error, non-200 status or
\* undecodable body) the request is answered 5xx and stops: no lookup,
\* creation, credential or redirect.
C18_ProfileFailureStops ==
    \A r \in CallbackIds :
        ProfileFetchFailed(cb[r]) =>
            /\ StoppedWithServerError(cb[r])
            /\ cb[r].profile = {}
            /\ cb[r].lookups = 0 /\ cb[r].inserts = 0

\* the provider answered the profile request with a status other than 200
C18_Witness ==
    \E r \in CallbackIds :
        /\ cb[r].resp = {HttpResponse(StatusInternalServerError,
                                      {Profile("g1", "ann@x", "ann")})}
        /\ cb[r].fetches = 1
        /\ cb[r].status = StatusInternalServerError

\* the steps of GoogleCallback that ran after the one that failed with
\* reason, counted
StepsAfterFailure(req) ==
    CASE req.reason \in {"Invalid state parameter", "No authorization code"} ->
            req.exchanges + req.fetches + req.lookups + req.inserts
      [] req.reason = "Failed to exchange token" ->
            req.fetches + req.lookups + req.inserts
      [] req.reason = "Failed to get user info" -> req.lookups + req.inserts
      [] req.reason = "Database error" -> req.inserts
      [] OTHER -> 0

\* C19: every failure ends the request and nothing is retried: the code
\* exchange, the profile fetch, the lookup and the insert each run at most
\* once per request, and no step runs after one that failed.
C19_FailuresTerminalNoRetry ==
    \A r \in CallbackIds :
        /\ cb[r].exchanges <= 1 /\ cb[r].fetches <= 1
        /\ cb[r].lookups <= 1 /\ cb[r].inserts <= 1
        /\ cb[r].reason # "" =>
              /\ cb[r].pc = "done"
              /\ cb[r].status \in {StatusBadRequest, StatusInternalServerError}
              /\ StepsAfterFailure(cb[r]) = 0
              /\ cb[r].token = {} /\ cb[r].location = {}

\* the insert, the last step that can fail, failed after each earlier step
\* had run once
C19_Witness ==
    \E r \in CallbackIds :
        /\ cb[r].pc = "done"
        /\ cb[r].reason = "Failed to create user"
        /\ cb[r].exchanges = 1 /\ cb[r].fetches = 1
        /\ cb[r].lookups = 1 /\ cb[r].inserts = 1

\* C20: the identity a handler observes is the one of the credential its own
\* request carried, valid when the middleware saw it, whatever other
\* requests are in flight.
C20_IdentityScopedToRequest ==
    \A i \in RequestIds :
        (rq[i].pc = "done" /\ rq[i].seen # {}) =>
            /\ rq[i].header.kind = "bearer"
            /\ ParseWithClaims(rq[i].header.tok, env, rq[i].at)
            /\ rq[i].seen = {UserClaims(rq[i].header.tok.claims)}

\* a handler saw its own identity, or none, while another request with
\* another account's identity attached was in flight
C20_Witness ==
    \E i, j \in RequestIds :
        /\ rq[j].pc = "handler" /\ rq[j].ctx # {}
        /\ rq[i].pc = "done" /\ rq[i].header.kind # "absent"
        /\ rq[i].seen # rq[j].ctx

\* C25: every credential generateJWT issues expires exactly 24 hours after
\* its issued-at claim, also when the second changes during issuance.
C25_LifetimeExactly24Hours ==
    \A c \in issued :
        \A e \in c.token.claims.exp, i \in c.token.claims.iat :
            e = i + TokenLifetime

C29_CredentialOnlyForMintedState ==
    \A r \in CallbackIds :
        cb[r].token # {} =>
            \E i \in 1..minted :
                cb[r].state = StateValue(i) /\ cb[r].cookie = {StateValue(i)}

\* the profile of the request is of an external id without account, and its
\* email or display name is the email or username of a stored account
CollidesWithStored(req) ==
    /\ req.profile # {}
    /\ \A p \in req.profile :
          /\ \A u \in users : u.google_id # {p.id}
          /\ \E u \in users : u.email = p.email \/ u.username = p.name

C22_LogsShowNoSecret ==
    \A r \in CallbackIds :
        \A line \in cb[r].log :
            line.accessTokens = {} /\ line.credentials = {}

\* C27: helloHandler answers 200 with the personalised message and the
\* claims if and only if the middleware attached an identity, and with the
\* generic message and no user otherwise.
C27_HelloDecidesOnIdentity ==
    \A i \in RequestIds :
        rq[i].pc = "done" =>
            \A resp \in rq[i].response :
                /\ resp.status = StatusOK
                /\ resp.user = rq[i].ctx
                /\ rq[i].ctx = {} <=> resp.message = <<"Hello from Go backend!">>
                /\ \A u \in rq[i].ctx :
                      resp.message = <<"Hello ", u.Username, "! You are authenticated.">>

\* one request was answered as an account's, another one as anonymous
C27_Witness ==
    \E i, j \in RequestIds :
        /\ rq[i].pc = "done" /\ rq[j].pc = "done"
        /\ \E resp \in rq[i].response : resp.user # {}
        /\ \E resp \in rq[j].response : resp.user = {}

\* C28: in every state of a callback request, the code exchange has run
\* only if the state verified, the profile fetch only if the exchange
\* succeeded, the account lookup only if the fetch succeeded, the insert
\* only if the lookup was answered, and there is a redirect with a
\* credential only if all of them succeeded and an account was found or
\* created for the profile's external id, which is the credential's
\* subject.
C28_RedirectOnlyAfterAllSteps ==
    \A r \in CallbackIds :
        /\ cb[r].exchanges > 0 =>
              StateVerified(cb[r].cookie, cb[r].state) /\ ~CodeMissing(cb[r].code)
        /\ cb[r].fetches > 0 => cb[r].exchanged = {TRUE}
        /\ cb[r].lookups > 0 =>
              /\ cb[r].fetches = 1 /\ ~ProfileFetchFailed(cb[r])
              /\ cb[r].profile # {}
        /\ cb[r].inserts > 0 => cb[r].lookups = 1
        /\ cb[r].user # {} => cb[r].lookups = 1 /\ ~cb[r].dbFailed
        /\ cb[r].token # {} =>
              /\ ProviderCallsSucceeded(cb[r])
              /\ \E u \in cb[r].user, p \in cb[r].profile :
                    /\ u \in users
                    /\ u.google_id = {p.id}
                    /\ \A tok \in cb[r].token :
                          /\ tok.claims.user_id = u.id
                          /\ cb[r].location = {RedirectURL(tok)}

\* a browser's request went through every step and was redirected with a
\* credential for the account it created
C28_Witness ==
    \E r \in CallbackIds :
        /\ cb[r].via = "browser"
        /\ cb[r].exchanges = 1 /\ cb[r].fetches = 1
        /\ cb[r].lookups = 1 /\ cb[r].inserts = 1
        /\ cb[r].token # {}
        /\ cb[r].status = StatusTemporaryRedirect

\* C21: the account store changes only by the insert of a callback's
\* identity-resolution step, which adds one row; GoogleLogin, the issuing
\* of a credential and JWTMiddleware with its handler leave it unchanged,
\* the middleware's outcome depends on the header, the secret and the time
\* only, and no step removes an account.
C21_StoreChangesOnlyByInsert ==
    [][/\ users \subseteq users'
       /\ users' # users =>
             \E r \in CallbackIds :
                 /\ cb[r].pc = "insert"
                 /\ cb'[r].inserts = cb[r].inserts + 1
                 /\ cb'[r].created = users' \ users
                 /\ Cardinality(users' \ users) = 1
       /\ logins' # logins => users' = users
       /\ (\E r \in CallbackIds : cb'[r].token # {} /\ cb[r].token = {}) =>
             users' = users
       /\ mw' # mw =>
             /\ users' = users
             /\ mw'.identity = JWTMiddleware(mw'.header, env, now).identity]_vars

\* a login was answered, an account stored, and the handler saw the
\* identity of a credential whose subject has no account
C21_Witness ==
    /\ logins # <<>>
    /\ users # {}
    /\ mw.served
    /\ \E who \in mw.identity : \A u \in users : u.id # who.UserID

\* the server has answered a login, a callback or a request to /api/hello
HasServed ==
    logins # <<>> \/ mw.served \/ \E r \in CallbackIds : cb[r].pc # "idle"

\* C23: with the signing secret missing the server does not start: it never
\* serves a login or a callback, nor signs or verifies a credential, with
\* an empty secret.
C23_NoServiceWithoutConfiguration ==
    HasServed => (env # "" /\ jwtSecret # "")

\* a callback request arrives in slot r
Arrives(r) == cb[r].pc \in {"idle", "done"} /\ cb'[r] # cb[r]

\* C24 as stated: a callback that presents a state value as cookie and as
\* parameter later than 10 minutes after GoogleLogin minted it does not
\* pass state verification.
C24_StaleStateRejected ==
    [][\A r \in CallbackIds :
          (/\ Arrives(r)
           /\ \E j \in jar : /\ now > j.setAt + StateCookieTTL
                             /\ cb'[r].cookie = {j.value}
                             /\ cb'[r].state = j.value) =>
              ~PassedStateCheck(cb'[r])]_vars

\* C24, amended: a browser's callback that comes later than 10 minutes
\* after GoogleLogin set its oauth_state cookie carries no cookie and is
\* answered 400.
C24_BrowserDropsStaleCookie ==
    [][\A r \in CallbackIds :
          (/\ Arrives(r)
           /\ cb'[r].via = "browser"
           /\ \E j \in jar : now > j.setAt + StateCookieTTL) =>
              /\ cb'[r].cookie = {}
              /\ ~PassedStateCheck(cb'[r])
              /\ cb'[r].status = StatusBadRequest]_vars

\* the browser came back with the state of its last login, more than 10
\* minutes after it, and was answered 400
C24_Witness ==
    \E r \in CallbackIds, j \in jar :
        /\ now > j.setAt + StateCookieTTL
        /\ cb[r].via = "browser"
        /\ cb[r].cookie = {}
        /\ cb[r].state = j.value
        /\ cb[r].status = StatusBadRequest

\* C31: a callback for an external id that has an account leaves the
\* account as stored, and the credential carries the stored email and
\* username, also when the profile of this login has other ones.
C31_ExistingAccountUnchanged ==
    \A r \in CallbackIds :
        (cb[r].user # {} /\ cb[r].created = {}) =>
            /\ \A p \in cb[r].profile :
                  GetUserByGoogleID(users, p.id) = cb[r].user
            /\ \A tok \in cb[r].token, u \in cb[r].user :
                  /\ u \in users
                  /\ tok.claims.user_id = u.id
                  /\ tok.claims.email = u.email
                  /\ tok.claims.username = u.username

\* the owner of an account logged in again with another email and display
\* name at the provider and got a credential with the stored ones
C31_Witness ==
    \E r \in CallbackIds :
        /\ cb[r].pc = "done"
        /\ cb[r].lookups = 1 /\ cb[r].inserts = 0
        /\ \E tok \in cb[r].token, p \in cb[r].profile :
              /\ tok.claims.email # p.email
              /\ tok.claims.username # p.name

\* C32: after two logins of one browser the oauth_state cookie holds the
\* second state only: the browser's callback with the first state value is
\* answered 400, and its callback passes verification only with the state
\* value of the cookie it holds.
C32_SecondLoginOverwritesCookie ==
    /\ \A c \in jar : c.value = StateValue(minted)
    /\ \A r \in CallbackIds :
          (cb[r].pc # "idle" /\ cb[r].via = "browser") =>
              /\ PassedStateCheck(cb[r]) => cb[r].cookie = {cb[r].state}
              /\ (\E i, j \in 1..minted :
                     /\ i < j
                     /\ cb[r].state = StateValue(i)
                     /\ cb[r].cookie = {StateValue(j)}) =>
                    /\ cb[r].pc = "done"
                    /\ cb[r].status = StatusBadRequest
                    /\ cb[r].reason = "Invalid state parameter"

\* after a second login the browser came back with the first state
C32_Witness ==
    \E r \in CallbackIds :
        /\ cb[r].via = "browser"
        /\ cb[r].cookie = {StateValue(2)}
        /\ cb[r].state = StateValue(1)
        /\ cb[r].status = StatusBadRequest

\* the statuses GoogleCallback answers with
CallbackStatuses ==
    {StatusBadRequest, StatusInternalServerError, StatusTemporaryRedirect}

\* C33: every callback request whose provider and storage calls return
\* ends, and it has been answered, with 400, 5xx or the 307 redirect,
\* exactly when it has ended.
C33_CallbackTerminates ==
    /\ \A r \in CallbackIds :
          (cb[r].pc \notin {"idle", "done"}) ~> (cb[r].pc = "done")
    /\ [](\A r \in CallbackIds :
             /\ cb[r].pc = "done" <=> cb[r].status \in CallbackStatuses
             /\ cb[r].pc # "done" => cb[r].status = 0)

\* two requests have ended, one after all its calls and one at a failed
\* call, after having been in flight together
C33_Witness ==
    \E r1, r2 \in CallbackIds :
        /\ cb[r1].pc = "done" /\ cb[r1].status = StatusTemporaryRedirect
        /\ cb[r2].pc = "done" /\ cb[r2].status = StatusInternalServerError
        /\ cb[r2].exchanges = 1

\* the item the page was opened with is a token for initialize
BootToken == \E token \in ui.boot : Truthy(token)

\* C34: with a non-empty item auth_token in localStorage, whatever it is,
\* the store is authenticated with it once AppContent has mounted, and it
\* stays so and the item stays until the logout button is used: the query
\* of useUser never ends with a 401 error, so its effect never logs out.
C34_StoredTokenStaysAuthenticated ==
    /\ ui.loggedOut # "401"
    /\ \A e \in query.error : ~Includes401(e)
    /\ ui.loggedOut = "no" =>
          /\ localStorage = ui.boot
          /\ (ui.mounted /\ BootToken) =>
                store.isAuthenticated /\ store.token = ui.boot

\* the store is authenticated with a credential that has expired, after
\* the server answered the query made with it
C34_Witness ==
    /\ ui.loggedOut = "no" /\ store.isAuthenticated
    /\ \E token \in store.token :
          /\ token.form = "jws" /\ HmacVerify(token, env)
          /\ ~ExpiryValid(token.claims, now)
    /\ query.status = "success" /\ query.at = now /\ query.handled
    /\ \A d \in query.data : d.user = {}

\* the names of the latest calls, newest first
OpNames == [i \in 1..Len(ops) |-> ops[i].name]

LoggedOutStore ==
    [user |-> {}, token |-> {}, isAuthenticated |-> FALSE, isLoading |-> FALSE]

\* C35: after logout the store is {user: null, token: null,
\* isAuthenticated: false, isLoading: false} and localStorage has no
\* auth_token; an initialize that follows, on the same store or on the
\* one of a reloaded page, leaves the store unauthenticated.
C35_LogoutClears ==
    /\ (Len(ops) >= 1 /\ ops[1].name = "logout") =>
          store = LoggedOutStore /\ localStorage = {}
    /\ (Len(ops) >= 2 /\ SubSeq(OpNames, 1, 2) = <<"initialize", "logout">>) =>
          store = LoggedOutStore /\ localStorage = {}
    /\ OpNames = <<"initialize", "reload", "logout">> =>
          /\ ~store.isAuthenticated /\ store.token = {} /\ ~store.isLoading
          /\ localStorage = {}

\* logout, a reload and initialize have followed a call of setToken's
C35_Witness ==
    /\ OpNames = <<"initialize", "reload", "logout">>
    /\ ui.loggedOut = "caller" /\ ui.mounted
    /\ ~store.isAuthenticated

\* C36: setToken(t), a reload and initialize leave token = t,
\* isAuthenticated = true and isLoading = false; after initialize
\* isLoading is false, and a second initialize changes nothing.
C36_SetTokenSurvivesReload ==
    /\ OpNames = <<"initialize", "reload", "setToken">> =>
          /\ store.token = ops[3].token
          /\ store.isAuthenticated /\ ~store.isLoading
    /\ (Len(ops) >= 1 /\ ops[1].name = "initialize") => ~store.isLoading
    /\ initialize(initialize(Client)) = initialize(Client)

\* C37: the store is authenticated only with a token.
C37_AuthenticatedOnlyWithToken ==
    store.isAuthenticated => store.token # {}

\* C38: at /dashboard, Dashboard is rendered only with isLoading = false
\* and isAuthenticated = true; with isLoading a placeholder is rendered,
\* by AppContent and by ProtectedRoute; without authentication the
\* element is the redirect to "/".
C38_DashboardOnlyWhenAuthenticated ==
    LET element == AppContent(store, "/dashboard")
    IN  /\ element = "Dashboard" => ~store.isLoading /\ store.isAuthenticated
        /\ ProtectedRoute(store) = "Dashboard" =>
              ~store.isLoading /\ store.isAuthenticated
        /\ store.isLoading =>
              /\ element = "Initializing..."
              /\ ProtectedRoute(store) = "Loading..."
        /\ (~store.isLoading /\ ~store.isAuthenticated) =>
              /\ element = "Navigate /"
              /\ NavigateTo(ProtectedRoute(store)) = {"/"}

\* Dashboard is on the page after initialize found a token
C38_Witness ==
    /\ ui.mounted /\ ui.path = "/dashboard"
    /\ AppContent(store, ui.path) = "Dashboard"
    /\ Len(ops) >= 1 /\ ops[1].name = "initialize"

=============================================================================
